---- MODULE Spec2Model ----
(***************************************************************************)
(* docs/sidebars.js: the module assigns one object literal to              *)
(* module.exports.  The model is the evaluation of that literal: the       *)
(* literal's syntax tree (string, array and object literals, in source     *)
(* order) is evaluated depth-first, left to right, into JavaScript values  *)
(* (tagged string / array / object), and the finished object is stored in  *)
(* module.exports.                                                         *)
(***************************************************************************)
EXTENDS Naturals, Sequences, FiniteSets

VARIABLES stack, exports, pc

vars == <<stack, exports, pc>>

----------------------------------------------------------------------------
(* Syntax of the literal *)

\* a string literal 'x'
S(s) == [k |-> "str", s |-> s]

\* an array literal [e1, e2, ...]
A(es) == [k |-> "arr", es |-> es]

\* one property `key: expr` of an object literal
P(key, e) == [key |-> key, e |-> e]

\* an object literal { p1, p2, ... }, its properties in source order
O(ps) == [k |-> "obj", ps |-> ps]

\* the shape every object literal of the file has:
\* { type: 'category', label: '...', items: [...] }
Category(label, items) ==
    O(<< P("type", S("category")), P("label", S(label)), P("items", A(items)) >>)

----------------------------------------------------------------------------
(* The literal of docs/sidebars.js *)

GettingStarted ==
    Category("Getting Started",
        << S("index"), S("prototype-an-assistant"), S("installation"),
           S("cheatsheet"), S("migrate-from") >>)

Components ==
    Category("Components",
        << S("components/language-models"), S("components/tokenizers"),
           S("components/featurizers"), S("components/intent-classifiers"),
           S("components/entity-extractors"), S("components/selectors"),
           S("components/custom-nlu-components") >>)

NLU ==
    Category("NLU", << S("training-data-format"), Components >>)

Policies ==
    Category("Policies", << S("policies") >>)

Actions ==
    Category("Actions",
        << S("retrieval-actions"), S("forms"),
           S("reminders-and-external-events") >>)

ChannelConnectors ==
    Category("Channel Connectors",
        << S("connectors/your-own-website"), S("connectors/facebook-messenger"),
           S("connectors/slack"), S("connectors/telegram"),
           S("connectors/twilio"), S("connectors/hangouts"),
           S("connectors/microsoft-bot-framework"),
           S("connectors/cisco-webex-teams"), S("connectors/rocketchat"),
           S("connectors/mattermost") >>)

\* the category also lists the architecture page of the Reference category
Architecture_ListsArchitecturePage ==
    Category("Architecture",
        << S("architecture"), S("tracker-stores"), S("event-brokers"),
           S("lock-stores"), S("nlg"), S("cloud-storage") >>)

Architecture ==
    Category("Architecture",
        << S("tracker-stores"), S("event-brokers"), S("lock-stores"),
           S("nlg"), S("cloud-storage") >>)

DialogueManagement ==
    Category("Dialogue Management",
        << S("stories"), S("domains"), Policies, Actions,
           ChannelConnectors, Architecture >>)

CustomActions ==
    Category("Custom Actions", << S("actions"), S("knowledge-bases") >>)

\* the category written without its label
SdkReference_NoLabel ==
    O(<< P("type", S("category")), P("items", A(<< S("action-server") >>)) >>)

SdkReference ==
    Category("Reference", << S("action-server") >>)

RasaSDK ==
    Category("Rasa SDK",
        << CustomActions, S("tracker"), S("events"), SdkReference >>)

Versioning ==
    Category("Versioning", << S("changelog"), S("migration-guide") >>)

\* changelog listed in the category and again in its Versioning subcategory
Reference_CrossListed ==
    Category("Reference",
        << S("architecture"), S("command-line-interface"), S("http-api"),
           S("changelog"), Versioning >>)

Reference ==
    Category("Reference",
        << S("architecture"), S("command-line-interface"), S("http-api"),
           Versioning >>)

OldContent ==
    Category("Old Content",
        << S("building-assistants"), S("messaging-and-voice-channels"),
           S("testing-your-assistant"), S("setting-up-ci-cd"),
           S("validate-files"), S("configuring-http-api"), S("how-to-deploy"),
           S("about-nlu"), S("using-nlu-only"), S("language-support"),
           S("choosing-a-pipeline"), S("entity-extraction"), S("about-core"),
           S("responses"), S("slots"), S("interactive-learning"),
           S("fallback-actions"), S("jupyter-notebooks"), S("agent"),
           S("rasa-sdk"), S("training-data-importers"),
           S("core-featurization"), S("tensorflow_usage"), S("glossary") >>)

someSidebar ==
    A(<< GettingStarted, NLU, DialogueManagement, RasaSDK, Reference,
         OldContent >>)

\* the right-hand side of `module.exports = { someSidebar: [...] }`
ModuleLiteral == O(<< P("someSidebar", someSidebar) >>)

----------------------------------------------------------------------------
(* JavaScript values *)

StringValue(s) == [t |-> "string", v |-> s]

ArrayValue(elems) == [t |-> "array", v |-> elems]

\* the properties defined so far, a later definition of a key replacing an
\* earlier one
PropertyMap(defs) ==
    [key \in {defs[j].key : j \in 1..Len(defs)} |->
        LET last == CHOOSE j \in 1..Len(defs) :
                        /\ defs[j].key = key
                        /\ \A m \in 1..Len(defs) : defs[m].key = key => m <= j
        IN  defs[last].val]

ObjectValue(defs) == [t |-> "object", v |-> PropertyMap(defs)]

\* module.exports before the assignment: the empty object
EmptyExports == ObjectValue(<< >>)

----------------------------------------------------------------------------
(* Evaluation of the literal *)

\* a literal under evaluation: its syntax, how many children are done, and
\* the children's values so far
Frame(e) == [e |-> e, done |-> 0, acc |-> << >>]

Top == stack[Len(stack)]

Children(e) == IF e.k = "arr" THEN e.es ELSE e.ps

\* the next child expression of the frame
NextExpr(f) ==
    LET c == Children(f.e)[f.done + 1]
    IN  IF f.e.k = "arr" THEN c ELSE c.e

HasNext(f) == f.done < Len(Children(f.e))

\* the frame after its next child evaluated to value v
Deliver(f, v) ==
    [f EXCEPT !.done = f.done + 1,
              !.acc = Append(f.acc,
                         IF f.e.k = "arr"
                         THEN v
                         ELSE [key |-> f.e.ps[f.done + 1].key, val |-> v])]

\* the value of a literal all of whose children are evaluated
Value(f) == IF f.e.k = "arr" THEN ArrayValue(f.acc) ELSE ObjectValue(f.acc)

Init ==
    /\ stack = << Frame(ModuleLiteral) >>
    /\ exports = EmptyExports
    /\ pc = "eval"

\* a string literal evaluates to its string
EvalString ==
    /\ pc = "eval"
    /\ HasNext(Top)
    /\ NextExpr(Top).k = "str"
    /\ stack' = [stack EXCEPT ![Len(stack)] =
                    Deliver(Top, StringValue(NextExpr(Top).s))]
    /\ UNCHANGED <<exports, pc>>

\* an array literal: its elements are evaluated in order
EnterArray ==
    /\ pc = "eval"
    /\ HasNext(Top)
    /\ NextExpr(Top).k = "arr"
    /\ stack' = Append(stack, Frame(NextExpr(Top)))
    /\ UNCHANGED <<exports, pc>>

\* an object literal: its properties are evaluated in order
EnterObject ==
    /\ pc = "eval"
    /\ HasNext(Top)
    /\ NextExpr(Top).k = "obj"
    /\ stack' = Append(stack, Frame(NextExpr(Top)))
    /\ UNCHANGED <<exports, pc>>

\* a nested literal is complete: its value goes to the enclosing literal
Leave ==
    /\ pc = "eval"
    /\ Len(stack) > 1
    /\ ~HasNext(Top)
    /\ LET below == Len(stack) - 1
       IN  stack' = [SubSeq(stack, 1, below) EXCEPT ![below] =
                        Deliver(stack[below], Value(Top))]
    /\ UNCHANGED <<exports, pc>>

\* module.exports = <the object>
Export ==
    /\ pc = "eval"
    /\ Len(stack) = 1
    /\ ~HasNext(Top)
    /\ exports' = Value(Top)
    /\ stack' = << >>
    /\ pc' = "done"

Next == EvalString \/ EnterArray \/ EnterObject \/ Leave \/ Export

Spec == Init /\ [][Next]_vars

----------------------------------------------------------------------------
(* Predicates over the exported value, in which the properties are stated *)

IsString(v) == v.t = "string"

IsArray(v) == v.t = "array"

IsObject(v) == v.t = "object"

Has(v, key) == IsObject(v) /\ key \in DOMAIN v.v

\* the value exported under the key someSidebar
Sidebar == exports.v["someSidebar"]

\* a mapping that is read as a Category: its type is 'category', or it
\* carries both label and items
IsCategory(v) ==
    /\ IsObject(v)
    /\ \/ (Has(v, "type") /\ IsString(v.v["type"]) /\ v.v["type"].v = "category")
       \/ (Has(v, "label") /\ Has(v, "items"))

\* the four structural defects of a node
MalformedNode(v) == ~IsString(v) /\ ~IsCategory(v)

EmptyLabel(v) ==
    IsCategory(v) /\ ~(Has(v, "label") /\ IsString(v.v["label"]) /\ v.v["label"].v # "")

InvalidItems(v) ==
    IsCategory(v) /\ ~(Has(v, "items") /\ IsArray(v.v["items"]))

EmptyDocumentId(v) == IsString(v) /\ v.v = ""

\* the grammar: Node ::= non-empty string | { label: non-empty string, items: Node* }
ConformsHere(v) ==
    \/ (IsString(v) /\ v.v # "")
    \/ /\ IsObject(v)
       /\ Has(v, "label") /\ IsString(v.v["label"]) /\ v.v["label"].v # ""
       /\ Has(v, "items") /\ IsArray(v.v["items"])

\* the nodes below an array value, depth-first and left to right, each with
\* its path (the 0-based indices from the root: <<2, 0>> is root[2].items[0])
RECURSIVE NodesFrom(_, _, _)
NodesFrom(elems, path, i) ==
    IF i > Len(elems) THEN << >>
    ELSE LET v    == elems[i]
             here == Append(path, i - 1)
             sub  == IF Has(v, "items") /\ IsArray(v.v["items"])
                     THEN NodesFrom(v.v["items"].v, here, 1)
                     ELSE << >>
         IN  << [path |-> here, node |-> v] >> \o sub \o NodesFrom(elems, path, i + 1)

Nodes == IF IsArray(Sidebar) THEN NodesFrom(Sidebar.v, << >>, 1) ELSE << >>

Pick(seq, Keep(_)) == SelectSeq(seq, Keep)

LeafEntry(e) == IsString(e.node)

CategoryEntry(e) == IsObject(e.node)

\* the Leaf nodes in traversal order
Leaves == Pick(Nodes, LeafEntry)

\* the mapping nodes in traversal order
Categories == Pick(Nodes, CategoryEntry)

\* the paths at which documentId d is listed, in traversal order
PathsOf(d) ==
    LET Is(e) == e.node.v = d
        hits  == SelectSeq(Leaves, Is)
    IN  [j \in 1..Len(hits) |-> hits[j].path]

\* the documentIds listed at two or more paths (exact string equality)
DuplicateDocumentIds ==
    {Leaves[j].node.v : j \in {m \in 1..Len(Leaves) : Len(PathsOf(Leaves[m].node.v)) >= 2}}

\* the labels of the categories at the given label, with their paths
CategoriesLabelled(l) ==
    LET Is(e) == Has(e.node, "label") /\ IsString(e.node.v["label"]) /\ e.node.v["label"].v = l
    IN  SelectSeq(Categories, Is)

StructuralError(v) ==
    MalformedNode(v) \/ EmptyLabel(v) \/ InvalidItems(v) \/ EmptyDocumentId(v)

----------------------------------------------------------------------------
(* C1: every node reachable from the exported someSidebar is a non-empty    *)
(* string or a mapping with a non-empty string label and an items sequence, *)
(* so no node is a MalformedNode, EmptyLabel, InvalidItems or               *)
(* EmptyDocumentId case.                                                    *)
C1_SidebarConforms ==
    pc = "done" =>
        /\ Has(exports, "someSidebar")
        /\ IsArray(Sidebar)
        /\ \A j \in 1..Len(Nodes) :
              /\ ConformsHere(Nodes[j].node)
              /\ ~MalformedNode(Nodes[j].node)
              /\ ~EmptyLabel(Nodes[j].node)
              /\ ~InvalidItems(Nodes[j].node)
              /\ ~EmptyDocumentId(Nodes[j].node)

\* the whole file is exported: leaves and categories at nesting depth 1, 2 and 3
C1_Witness ==
    /\ pc = "done"
    /\ Len(Leaves) >= 60
    /\ Len(Categories) >= 14
    /\ \E j \in 1..Len(Nodes) : Len(Nodes[j].path) = 3 /\ IsString(Nodes[j].node)
    /\ \E j \in 1..Len(Nodes) : Len(Nodes[j].path) = 2 /\ IsObject(Nodes[j].node)

(* C2: the documentIds of all Leaf nodes of the exported someSidebar, over  *)
(* every category and nesting level, are pairwise distinct.                 *)
C2_DocumentIdsDistinct ==
    pc = "done" =>
        \A i, j \in 1..Len(Leaves) :
            Leaves[i].path # Leaves[j].path => Leaves[i].node.v # Leaves[j].node.v

\* leaves are compared across categories and across nesting levels
C2_Witness ==
    /\ pc = "done"
    /\ \E i, j \in 1..Len(Leaves) :
          /\ Len(Leaves[i].path) = 2
          /\ Len(Leaves[j].path) = 3
          /\ Leaves[i].path[1] # Leaves[j].path[1]

====
